---- MODULE Spec2Model ----
(***************************************************************************)
(* Model of app.py (Credit Card Expense Analyzer): the summary extraction  *)
(* extract_summary_from_pdf, its helpers fmt_num / parse_number /          *)
(* parse_date, and the upload loop of the Streamlit script.                *)
(*                                                                         *)
(* Text is modelled as pages of lines of tokens.  A token is a record      *)
(* [k, a, b, c]: k is the kind (a label such as "statement date", a number *)
(* written with two decimals, a date, ...), a/b/c its payload.  Every      *)
(* regular expression of the source is an operator over token sequences    *)
(* that returns what re.search returns on the rendered text: the leftmost  *)
(* match and its captured groups.  Amounts are integers in paise.          *)
(*                                                                         *)
(* Spec is the script and the extraction.  Helpers is one call of a helper *)
(* (parse_number, parse_date, the row logic of                             *)
(* extract_transactions_from_pdf and of normalize_dataframe) on an         *)
(* argument drawn from a set of inputs.                                    *)
(***************************************************************************)
EXTENDS Integers, Sequences, FiniteSets, TLC

VARIABLES
  caller,     \* "direct": one call of extract_summary_from_pdf; "loop": the script
  files,      \* uploaded_files: records [ext, readable, pages]
  fi,         \* position of the upload loop in files
  pc,         \* where the script / the extraction is
  result,     \* the dict "result" of extract_summary_from_pdf
  applied,    \* the issuer blocks (amex, hdfc, bob) that wrote to result in this extraction
  summaries,  \* the maps returned so far: records [file, map]
  errors,     \* indexes of the files for which st.error was called
  all_data,   \* indexes of the files whose rows were concatenated (line 659)
  vendor_map, \* rows [merchant, category] of the vendor table
  calls,      \* per lower-cased merchant name: the category of the most recent
              \* add_new_vendor call for it ("-" when there was none)
  runs,       \* how many times the script has started
  fn,         \* the helper function under call ("-" when none)
  arg,        \* its argument
  ret         \* what it returned

vars == <<caller, files, fi, pc, result, applied, summaries, errors, all_data, vendor_map, calls,
          runs, fn, arg, ret>>

----------------------------------------------------------------------------
(* Bounds of the model *)

MaxLines == 2
MaxFiles == 2
MaxRuns == 2

(* Program constants *)
PagesLimit == 5
HeadLines == 10
GapLimit == 40
HdfcLookahead == 3

----------------------------------------------------------------------------
(* Generic helpers *)

Min(S) == CHOOSE x \in S : \A y \in S : x <= y
Max(S) == CHOOSE x \in S : \A y \in S : x >= y
MinOf(a, b) == IF a <= b THEN a ELSE b

RECURSIVE Pow10(_)
Pow10(n) == IF n = 0 THEN 1 ELSE 10 * Pow10(n - 1)

RECURSIVE Digits(_)
Digits(n) == IF n < 10 THEN 1 ELSE 1 + Digits(n \div 10)

----------------------------------------------------------------------------
(* Python values held in the result dict and passed between helpers.       *)
(*   t = "N/A"   the unknown sentinel string                               *)
(*   t = "None"  Python None                                               *)
(*   t = "float" a float, v in paise                                       *)
(*   t = "num"   a numeric string, v in paise; f = "plain" (digits only),  *)
(*               "comma" (has thousands separators, no symbol) or "rupee"  *)
(*               (the symbol followed by comma-grouped digits)             *)
(*   t = "date"  a date-like string for day v; f is its written form       *)
(*   t = "text"  another string: f = "inf" ("inf", "Infinity"), "nan",     *)
(*               "word" ("abc"), "empty" (""), "dots" ("1.2.3"), or the    *)
(*               symbol before "inf" / "nan" ("rupee inf", "rupee nan")    *)
(*   t = "obj"   an object that is no string: f = "repr" (str() gives its  *)
(*               repr), "raises" (its __str__ raises) or "zero" (the int   *)
(*               0, which is false and whose str() is "0")                 *)
(* A float has f = "-" when finite, "inf" or "nan" otherwise.  A numeric   *)
(* string may also have f = "padded": the symbol, comma-grouped digits,    *)
(* and blanks around them.                                                 *)

Fields == {"Statement date", "Payment due date", "Minimum payable", "Total Dues"}

NA == [t |-> "N/A", v |-> 0, f |-> "-"]
None == [t |-> "None", v |-> 0, f |-> "-"]
Float(v) == [t |-> "float", v |-> v, f |-> "-"]
NumStr(v, f) == [t |-> "num", v |-> v, f |-> f]
DateStr(v, f) == [t |-> "date", v |-> v, f |-> f]

Canon == "dd/mm/YYYY"

(* result = {...: "N/A"} of lines 229-234, also the dict of 503-508, 510-515 *)
DefaultResult == [k \in Fields |-> NA]


----------------------------------------------------------------------------
(* fmt_num, parse_number, parse_date *)

fmt_num_NoneOnError(val) ==
  IF val.t = "float" \/ (val.t = "num" /\ val.f = "plain")
  THEN NumStr(val.v, "rupee") ELSE None

(* float(val) of line 28 succeeds on a float and on a string of digits;    *)
(* it raises on None, on a string with separators or the symbol, on dates. *)
FloatOk(val) ==
  \/ val.t = "float"
  \/ val.t = "num" /\ val.f = "plain"
  \/ val.t = "text" /\ val.f \in {"inf", "nan"}
  \/ val.t = "obj" /\ val.f = "zero"

(* f"{n:,.2f}" of a float that is not finite is "inf" or "nan" *)
fmt_num(val) ==
  IF ~FloatOk(val) THEN val
  ELSE IF val.f \in {"inf", "nan"}
    THEN [t |-> "text", v |-> 0, f |-> IF val.f = "inf" THEN "rupee inf" ELSE "rupee nan"]
  ELSE NumStr(val.v, "rupee")

(* str(s) without "," and the symbol is a float literal for every float    *)
(* and numeric string; float() raises on anything else and None is returned *)
(* float() also reads "inf", "Infinity" and "nan", in any case.  The bare   *)
(* except of line 38 catches whatever str() or float() raises.             *)
parse_number(s) ==
  IF s.t \in {"float", "text"} /\ s.f \in {"inf", "nan"}
    THEN [t |-> "float", v |-> 0, f |-> s.f]
  ELSE IF s.t \in {"float", "num"} \/ (s.t = "obj" /\ s.f = "zero") THEN Float(s.v)
  ELSE None

(* A date string is written as dd/mm/YYYY (Canon), "August 5 2025" (mdy),  *)
(* "5 Aug 2025" (dmy), a month-day-year shape whose word is no month       *)
(* (badmdy, "Foo 5 2025"), a day-word-year shape whose word is no month    *)
(* (baddmy), or other text that ends in four digits (junk).                *)
(* Further forms, met only when parse_date is called on its own: text     *)
(* around a dd/mm/YYYY date ("embedded", line 47 returns the date alone),  *)
(* a date of a year below 1000 ("dmy0", "18 Jul 0999"), which strftime     *)
(* writes without leading zeros ("d/m/y", "18/07/999").                    *)
Parseable(f) == f \in {Canon, "mdy", "dmy", "embedded"}

(* "if not date_str" of line 43: None, "", 0, 0.0 *)
Falsy(x) ==
  \/ x.t = "None"
  \/ x.t = "text" /\ x.f = "empty"
  \/ x.t = "obj" /\ x.f = "zero"
  \/ x.t = "float" /\ x.f = "-" /\ x.v = 0

parse_date_EmptyWhenUnparsed(date_str) ==
  IF Falsy(date_str) THEN NA
  ELSE IF date_str.t = "date" /\ Parseable(date_str.f) THEN DateStr(date_str.v, Canon)
  ELSE [t |-> "text", v |-> 0, f |-> "empty"]

parse_date(date_str) ==
  IF Falsy(date_str) THEN NA
  ELSE IF date_str.t = "date" /\ Parseable(date_str.f) THEN DateStr(date_str.v, Canon)
  ELSE IF date_str.t = "date" /\ date_str.f = "dmy0" THEN DateStr(date_str.v, "d/m/y")
  ELSE date_str

----------------------------------------------------------------------------
(* Tokens and their rendered width *)

Lbl(k) == [k |-> k, a |-> 0, b |-> 0, c |-> 0]
Num(v, comma) == [k |-> "NUM", a |-> v, b |-> IF comma THEN 1 ELSE 0, c |-> 0]
Date(id, form) == [k |-> "DATE", a |-> id, b |-> form, c |-> 0]
(* "Statement Period From <D1> to <D2>": a, b = day and form of D2; c is   *)
(* how D1 is written: 0 "June 19", 1 "October 19 2025" (a month that       *)
(* contains "to", and a year), 2 a word that is no date ("a")              *)
Period(id, form, oct) == [k |-> "SPF", a |-> id, b |-> form, c |-> oct]
(* "<d Mon YYYY> to <d Mon YYYY>": a, b = day and form of the second date  *)
Range(id, form) == [k |-> "RNG", a |-> id, b |-> form, c |-> 0]

FormName(b) ==
  CASE b = 0 -> Canon [] b = 1 -> "mdy" [] b = 2 -> "dmy"
    [] b = 3 -> "badmdy" [] b = 4 -> "junk" [] OTHER -> "baddmy"

IsNum(t) == t.k = "NUM"
IsDate0(t) == t.k = "DATE" /\ t.b = 0

(* text of the captured group *)
NumText(t) == NumStr(t.a, IF t.b = 1 THEN "comma" ELSE "plain")
DateText(t) == DateStr(t.a, FormName(t.b))

(* characters of the integer part of a number, separators included *)
IntLen(t) ==
  LET d == Digits(t.a \div 100) IN IF t.b = 1 THEN d + ((d - 1) \div 3) ELSE d

FormLen(b) ==
  CASE b = 0 -> 10 [] b = 1 -> 13 [] b = 2 -> 10 [] b = 3 -> 10 [] b = 4 -> 6 [] OTHER -> 10

TokLen(t) ==
  CASE t.k = "NUM" -> IntLen(t) + 3
    [] t.k = "DATE" -> FormLen(t.b)
    [] t.k = "SPF" -> 26 + FormLen(t.b) + (CASE t.c = 0 -> 7 [] t.c = 1 -> 15 [] OTHER -> 1)
    [] t.k = "RNG" -> 15 + FormLen(t.b)
    [] t.k = "SD" -> 14 [] t.k = "PDD" -> 16 [] t.k = "MAD" -> 18
    [] t.k = "MP" -> 15 [] t.k = "MPY" -> 15 [] t.k = "TD" -> 10
    [] t.k = "EQ" -> 1 [] t.k = "OP" -> 1 [] t.k = "DB" -> 6 [] t.k = "DR" -> 2
    [] t.k = "OB" -> 15 [] t.k = "HDFC" -> 4 [] t.k = "BOB" -> 14
    [] t.k = "AMEX" -> 16 [] t.k = "TDW" -> 11 [] OTHER -> 7

(* the text a group captures when it starts k characters before the "."    *)
(* of number t: the last k characters of the integer part and the decimals *)
TailText(t, k) ==
  LET d == IF t.b = 1 THEN k - (k \div 4) ELSE k
  IN  NumStr(t.a % Pow10(d + 2), IF t.b = 1 /\ k >= 4 THEN "comma" ELSE "plain")

----------------------------------------------------------------------------
(* Pages, lines and the flattened text (lines 247-258) *)

RECURSIVE ConcatAll(_)
ConcatAll(ss) == IF ss = <<>> THEN <<>> ELSE Head(ss) \o ConcatAll(Tail(ss))

(* pages_to_read = min(5, len(pdf.pages)) *)
PagesToRead(pages) == MinOf(PagesLimit, Len(pages))

(* lines: the non-empty lines of the pages read, in order *)
LinesOf(pages) == ConcatAll(SubSeq(pages, 1, PagesToRead(pages)))

(* text_all as tokens, and for each token the index of its line *)
FlatT(lines) == ConcatAll(lines)
FlatL(lines) == ConcatAll([i \in 1..Len(lines) |-> [j \in 1..Len(lines[i]) |-> i]])

(* start column of token j of a line, tokens separated by one blank *)
RECURSIVE Col(_, _)
Col(ln, j) == IF j = 1 THEN 0 ELSE Col(ln, j - 1) + TokLen(ln[j - 1]) + 1

First(S) == IF S = {} THEN 0 ELSE Min(S)

Has(T, k) == \E i \in 1..Len(T) : T[i].k = k

(* vendor hints, lines 261-264 *)
is_amex(T) == Has(T, "AMEX")
is_hdfc(T) == Has(T, "HDFC")
is_bob(T) == Has(T, "BOB")


----------------------------------------------------------------------------
(* 1) Generic label regexes, lines 266-313.  Each operator is the index of *)
(* the leftmost match in text_all (0 when there is none); \s* between a    *)
(* label and its value also spans a line break.                            *)

(* "due by" + Month d[,] YYYY : captures mdy shapes, month valid or not *)
IsMdy(t) == t.k = "DATE" /\ t.b \in {1, 3}

(* the capture group of a label regex: an amount, a dd/mm/YYYY date or a   *)
(* Month d YYYY date                                                       *)
Captures(g, t) ==
  CASE g = "num" -> IsNum(t) [] g = "date0" -> IsDate0(t) [] OTHER -> IsMdy(t)

(* index of the first label k directly followed by a token the group g    *)
(* captures                                                                *)
LabelThen(T, k, g) ==
  First({i \in 1..(Len(T) - 1) : T[i].k = k /\ Captures(g, T[i + 1])})

(* group 2 of the "statement period from .. to .." regex (line 273): the   *)
(* shortest text after the first "to" that ends in four digits.  With a D1 *)
(* such as "October 19 2025" the first "to" is inside D1, and the group is *)
(* the rest of D1 ("ber 19 2025", day 19).                                 *)
PeriodGroup2(t) ==
  IF t.c = 1 THEN DateStr(19, "junk") ELSE DateText(t)

StatementDateStep(res, T) ==
  LET m == LabelThen(T, "SD", "date0")
      m2 == First({i \in 1..Len(T) : T[i].k = "SPF"})
      m3 == First({i \in 1..Len(T) : T[i].k = "RNG"})
  IN  IF m # 0 THEN [res EXCEPT !["Statement date"] = parse_date(DateText(T[m + 1]))]
      ELSE IF m2 # 0 THEN [res EXCEPT !["Statement date"] = parse_date(PeriodGroup2(T[m2]))]
      ELSE IF m3 # 0 THEN [res EXCEPT !["Statement date"] = parse_date(DateText(T[m3]))]
      ELSE res

PaymentDueStep(res, T) ==
  LET m == LabelThen(T, "PDD", "date0")
      m2 == LabelThen(T, "DB", "mdy")
  IN  IF m # 0 THEN [res EXCEPT !["Payment due date"] = parse_date(DateText(T[m + 1]))]
      ELSE IF m2 # 0 THEN [res EXCEPT !["Payment due date"] = parse_date(DateText(T[m2 + 1]))]
      ELSE res

MinimumStep(res, T) ==
  LET m == LabelThen(T, "MAD", "num")
      m2 == LabelThen(T, "MP", "num")
  IN  IF m # 0 THEN [res EXCEPT !["Minimum payable"] = fmt_num(NumText(T[m + 1]))]
      ELSE IF m2 # 0 THEN [res EXCEPT !["Minimum payable"] = fmt_num(NumText(T[m2 + 1]))]
      ELSE res

TotalStep(res, T) ==
  LET m == LabelThen(T, "TD", "num")
      m2 == LabelThen(T, "EQ", "num")
  IN  IF m # 0 THEN [res EXCEPT !["Total Dues"] = fmt_num(NumText(T[m + 1]))]
      ELSE IF m2 # 0 /\ res["Total Dues"] = NA
           THEN [res EXCEPT !["Total Dues"] = fmt_num(NumText(T[m2 + 1]))]
      ELSE res

GenericStep(res, lines) ==
  LET T == FlatT(lines)
  IN  TotalStep(MinimumStep(PaymentDueStep(StatementDateStep(res, T), T), T), T)


----------------------------------------------------------------------------
(* 2) AMEX heuristics, lines 317-347 *)

(* The arithmetic line (line 319): "opening balance", anything on the same *)
(* line, then  n op n [op] n = n [n].  ArithEq(T, j) is the index of the   *)
(* "=" when the arithmetic starts at token j, 0 otherwise.                 *)
ArithEq(T, j) ==
  IF j + 4 <= Len(T) /\ IsNum(T[j]) /\ T[j + 1].k = "OP" /\ IsNum(T[j + 2])
  THEN IF T[j + 3].k = "OP" /\ j + 6 <= Len(T) /\ IsNum(T[j + 4])
            /\ T[j + 5].k = "EQ" /\ IsNum(T[j + 6])
       THEN j + 5
       ELSE IF IsNum(T[j + 3]) /\ j + 5 <= Len(T) /\ T[j + 4].k = "EQ" /\ IsNum(T[j + 5])
       THEN j + 4
       ELSE 0
  ELSE 0

(* index of the "=" of the leftmost match, 0 when the regex does not match *)
AmexArith(T, L) ==
  LET starts(i) == {j \in (i + 1)..Len(T) : L[j] = L[i] /\ ArithEq(T, j) # 0}
      obs == {i \in 1..Len(T) : T[i].k = "OB" /\ starts(i) # {}}
  IN  IF obs = {} THEN 0 ELSE ArithEq(T, Min(starts(Min(obs))))

AmexStep(res, lines) ==
  LET T == FlatT(lines)
      L == FlatL(lines)
      e == AmexArith(T, L)
      closing == parse_number(NumText(T[e + 1]))
      minimum == IF e + 2 <= Len(T) /\ IsNum(T[e + 2])
                 THEN parse_number(NumText(T[e + 2])) ELSE None
      r1 == IF e # 0 /\ closing # None
            THEN [res EXCEPT !["Total Dues"] = fmt_num(closing)] ELSE res
      r2 == IF e # 0 /\ minimum # None
            THEN [r1 EXCEPT !["Minimum payable"] = fmt_num(minimum)] ELSE r1
      mmin == LabelThen(T, "MP", "num")
      r3 == IF mmin # 0
            THEN [r2 EXCEPT !["Minimum payable"] = fmt_num(NumText(T[mmin + 1]))] ELSE r2
      mdue == LabelThen(T, "DB", "mdy")
  IN  IF ~is_amex(T) THEN res
      ELSE IF mdue # 0
      THEN [r3 EXCEPT !["Payment due date"] = parse_date(DateText(T[mdue + 1]))]
      ELSE r3


----------------------------------------------------------------------------
(* HDFC heuristics, lines 350-401 *)

TokText(t) == IF IsNum(t) THEN NumText(t) ELSE DateText(t)

(* flat: the dd/mm/YYYY dates and the numbers of a line, in order (357-359) *)
FlatOf(ln) == SelectSeq(ln, LAMBDA t : IsDate0(t) \/ IsNum(t))

(* line 354 *)
IsHdfcHeader(ln) == Has(ln, "PDD") /\ (Has(ln, "TD") \/ Has(ln, "MAD"))

(* the row led by a date, lines 363-378: the two values by magnitude *)
HdfcDateRow(res, flat, vals) ==
  IF vals[2].v >= vals[1].v
  THEN [res EXCEPT !["Payment due date"] = parse_date(TokText(flat[1])),
                   !["Minimum payable"] = fmt_num(vals[1]),
                   !["Total Dues"] = fmt_num(vals[2])]
  ELSE [res EXCEPT !["Payment due date"] = parse_date(TokText(flat[1])),
                   !["Total Dues"] = fmt_num(vals[1]),
                   !["Minimum payable"] = fmt_num(vals[2])]

(* the row with no leading date, lines 379-391: total first, minimum second *)
HdfcPlainRow(res, lines, idx, vals) ==
  LET prev == IF idx > 1 THEN First({i \in 1..Len(lines[idx - 1]) : IsDate0(lines[idx - 1][i])})
              ELSE 0
      prev_date == IF prev # 0 THEN parse_date(DateText(lines[idx - 1][prev])) ELSE None
  IN  [res EXCEPT !["Payment due date"] = IF prev_date # None THEN prev_date ELSE @,
                  !["Total Dues"] = fmt_num(vals[1]),
                  !["Minimum payable"] = fmt_num(vals[2])]

(* the body of "for j in range(idx, min(idx+3, len(lines)))" from row j on; *)
(* the first row that assigns ends the loop (break)                        *)
RECURSIVE HdfcRows(_, _, _, _)
HdfcRows(res, lines, idx, j) ==
  IF j > MinOf(idx + HdfcLookahead - 1, Len(lines)) THEN res
  ELSE LET flat == FlatOf(lines[j])
           dateFirst == IsDate0(flat[1])
           vals == IF dateFirst
                   THEN <<parse_number(TokText(flat[2])), parse_number(TokText(flat[3]))>>
                   ELSE <<parse_number(TokText(flat[1])), parse_number(TokText(flat[2]))>>
       IN  IF Len(flat) >= 3 /\ vals[1] # None /\ vals[2] # None
           THEN IF dateFirst THEN HdfcDateRow(res, flat, vals)
                ELSE HdfcPlainRow(res, lines, idx, vals)
           ELSE HdfcRows(res, lines, idx, j + 1)

(* "for idx, ln in enumerate(lines)" from line idx on *)
RECURSIVE HdfcScan(_, _, _)
HdfcScan(res, lines, idx) ==
  IF idx > Len(lines) THEN res
  ELSE IF IsHdfcHeader(lines[idx])
       THEN HdfcScan(HdfcRows(res, lines, idx, idx), lines, idx + 1)
       ELSE HdfcScan(res, lines, idx + 1)

HdfcStep(res, lines) ==
  LET T == FlatT(lines)
      r1 == HdfcScan(res, lines, 1)
      mMin == LabelThen(T, "MAD", "num")
      r2 == IF r1["Minimum payable"] = NA /\ mMin # 0
            THEN [r1 EXCEPT !["Minimum payable"] = fmt_num(NumText(T[mMin + 1]))] ELSE r1
      mTot == LabelThen(T, "TD", "num")
  IN  IF ~is_hdfc(T) THEN res
      ELSE IF r2["Total Dues"] = NA /\ mTot # 0
      THEN [r2 EXCEPT !["Total Dues"] = fmt_num(NumText(T[mTot + 1]))]
      ELSE r2


----------------------------------------------------------------------------
(* BOB heuristics, lines 404-448 *)

ByMagnitudeFirstIsMinimum(res, a1, a2) ==
  [res EXCEPT !["Minimum payable"] = fmt_num(a1), !["Total Dues"] = fmt_num(a2)]

(* smaller value is minimum, larger is total (414-421, 430-435, 464-469) *)
ByMagnitude(res, a1, a2) ==
  IF a1.v <= a2.v
  THEN [res EXCEPT !["Minimum payable"] = fmt_num(a1), !["Total Dues"] = fmt_num(a2)]
  ELSE [res EXCEPT !["Minimum payable"] = fmt_num(a2), !["Total Dues"] = fmt_num(a1)]

(* line 407 on one line: dd/mm/YYYY  n  n  DR; index of the date or 0 *)
BobDateRow(ln) ==
  First({i \in 1..(Len(ln) - 3) :
           IsDate0(ln[i]) /\ IsNum(ln[i + 1]) /\ IsNum(ln[i + 2]) /\ ln[i + 3].k = "DR"})

(* "for ln in lines" of 406-422 from line n on: the first matching line *)
RECURSIVE BobLines(_, _, _)
BobLines(res, lines, n) ==
  IF n > Len(lines) THEN res
  ELSE LET ln == lines[n]
           m == BobDateRow(ln)
           d == parse_date(DateText(ln[m]))
           a1 == parse_number(NumText(ln[m + 1]))
           a2 == parse_number(NumText(ln[m + 2]))
       IN  IF m # 0 /\ a1 # None /\ a2 # None
           THEN ByMagnitude([res EXCEPT !["Payment due date"] = d], a1, a2)
           ELSE BobLines(res, lines, n + 1)

(* line 426 on text_all: n  n  DR *)
BobTwoDr(T) ==
  First({i \in 1..(Len(T) - 2) : IsNum(T[i]) /\ IsNum(T[i + 1]) /\ T[i + 2].k = "DR"})

(* line 438 on text_all: four numbers in a row *)
FourRun(T) ==
  First({i \in 1..(Len(T) - 3) : \A d \in 0..3 : IsNum(T[i + d])})

BobStep(res, lines) ==
  LET T == FlatT(lines)
      r1 == BobLines(res, lines, 1)
      m2 == BobTwoDr(T)
      a1 == parse_number(NumText(T[m2]))
      a2 == parse_number(NumText(T[m2 + 1]))
      r2 == IF r1["Total Dues"] = NA /\ m2 # 0 /\ a1 # None /\ a2 # None
            THEN ByMagnitude(r1, a1, a2) ELSE r1
      m4 == FourRun(T)
      nums_f == [d \in 1..4 |-> parse_number(NumText(T[m4 + d - 1]))]
      possible_total == Float(Max({nums_f[d].v : d \in 1..4}))
      possible_min == Float(Min({nums_f[d].v : d \in 1..4}))
  IN  IF ~is_bob(T) THEN res
      ELSE IF m4 # 0 /\ r2["Total Dues"] = NA
      THEN [r2 EXCEPT !["Total Dues"] = fmt_num(possible_total),
                      !["Minimum payable"] = fmt_num(possible_min)]
      ELSE r2

----------------------------------------------------------------------------
(* Generic fallback, lines 451-470 *)

(* The regex of line 455 on one line:                                      *)
(*   (dd/mm/YYYY) .{0,40} (n) .{0,40} (n)                                  *)
(* Both gaps are greedy, so a group starts as far right as the 40-char     *)
(* limit and the rest of the pattern allow: inside a number, normally on   *)
(* the last digit before its ".".                                          *)

(* start column of the integer part of token j, and column of its "." *)
DotCol(ln, j) == Col(ln, j) + IntLen(ln[j])

(* rightmost column <= lim at which a group can start inside number j; -1  *)
(* when the number starts after lim                                        *)
StartIn(ln, j, lim) ==
  IF Col(ln, j) > lim THEN -1 ELSE MinOf(DotCol(ln, j) - 1, lim)

(* numbers after token i in which the last group can start: within 40     *)
(* characters of the end of the previous group                              *)
Group3Toks(ln, j) ==
  {q \in (j + 1)..Len(ln) : IsNum(ln[q]) /\ StartIn(ln, q, DotCol(ln, j) + 3 + GapLimit) >= 0}

(* numbers after date i in which the middle group can start *)
Group2Toks(ln, i) ==
  {j \in (i + 1)..Len(ln) :
     IsNum(ln[j]) /\ StartIn(ln, j, Col(ln, i) + 10 + GapLimit) >= 0 /\ Group3Toks(ln, j) # {}}

(* index of the date of the leftmost match on the line, 0 when none *)
FallbackDate(ln) ==
  First({i \in 1..Len(ln) : IsDate0(ln[i]) /\ Group2Toks(ln, i) # {}})

FallbackGroup2(ln, i) ==
  LET j == Max(Group2Toks(ln, i))
  IN  TailText(ln[j], DotCol(ln, j) - StartIn(ln, j, Col(ln, i) + 10 + GapLimit))

FallbackGroup3(ln, i) ==
  LET j == Max(Group2Toks(ln, i))
      q == Max(Group3Toks(ln, j))
  IN  TailText(ln[q], DotCol(ln, q) - StartIn(ln, q, DotCol(ln, j) + 3 + GapLimit))

(* "for ln in lines[:10]" from line n on; the first matching line ends it *)
RECURSIVE FallbackLines(_, _, _)
FallbackLines(res, lines, n) ==
  IF n > MinOf(HeadLines, Len(lines)) THEN res
  ELSE LET ln == lines[n]
           i == FallbackDate(ln)
           d == parse_date(DateText(ln[i]))
           v1 == parse_number(FallbackGroup2(ln, i))
           v2 == parse_number(FallbackGroup3(ln, i))
           r1 == IF res["Statement date"] = NA
                 THEN [res EXCEPT !["Statement date"] = d] ELSE res
       IN  IF i = 0 THEN FallbackLines(res, lines, n + 1)
           ELSE IF (r1["Minimum payable"] = NA \/ r1["Total Dues"] = NA)
                   /\ v1 # None /\ v2 # None
           THEN ByMagnitude(r1, v1, v2)
           ELSE r1

FallbackStepUnguardedDate(res, lines) ==
  LET r == FallbackLines([res EXCEPT !["Statement date"] = NA], lines, 1)
  IN  IF res["Total Dues"] = NA \/ res["Minimum payable"] = NA \/ res["Statement date"] = NA
      THEN (IF r["Statement date"] = NA
            THEN [r EXCEPT !["Statement date"] = res["Statement date"]] ELSE r)
      ELSE res

FallbackStep(res, lines) ==
  IF res["Total Dues"] = NA \/ res["Minimum payable"] = NA \/ res["Statement date"] = NA
  THEN FallbackLines(res, lines, 1)
  ELSE res


----------------------------------------------------------------------------
(* Final keyword passes and normalisation, lines 472-491 *)

(* column of token i of text_all inside its own line *)
ColAt(lines, T, L, i) ==
  LET before == Cardinality({j \in 1..i : L[j] = L[i]})
  IN  Col(lines[L[i]], before)

(* group 2 of line 484 after a "due by" at index d: the shortest run of    *)
(* letters, digits, blanks and commas that ends in four digits.  A textual *)
(* date is captured whole; a number of four or more digits written without *)
(* separators gives a blank and its first four digits; a dd/mm/YYYY date   *)
(* or a shorter or comma-grouped number stops the run at "/" or ".".       *)
DueByGroup(T, d) ==
  IF d + 1 > Len(T) THEN None
  ELSE LET t == T[d + 1]
       IN  IF t.k = "DATE" /\ t.b # 0 THEN DateText(t)
           ELSE IF IsNum(t) /\ t.b = 0 /\ t.a >= 100000 THEN DateStr(0, "digits")
           ELSE None

(* line 484: "minimum payment" n, at most 40 characters on the same line,  *)
(* "due by", group 2.  The pair <<index of the label, index of "due by">>  *)
(* of the leftmost match with the nearest "due by", <<0, 0>> when none.    *)
MinPayDueBy(lines, T, L) ==
  LET dbs(i) == {d \in (i + 2)..Len(T) :
                   /\ T[d].k = "DB" /\ L[d] = L[i + 1]
                   /\ ColAt(lines, T, L, d)
                        - (ColAt(lines, T, L, i + 1) + TokLen(T[i + 1])) <= GapLimit
                   /\ DueByGroup(T, d) # None}
      ms == {i \in 1..(Len(T) - 1) : T[i].k = "MP" /\ IsNum(T[i + 1]) /\ dbs(i) # {}}
  IN  IF ms = {} THEN <<0, 0>> ELSE <<Min(ms), Min(dbs(Min(ms)))>>

FinalStep(res, lines) ==
  LET T == FlatT(lines)
      L == FlatL(lines)
      mMin == First({i \in 1..(Len(T) - 1) : T[i].k \in {"MAD", "MPY"} /\ IsNum(T[i + 1])})
      r1 == IF res["Minimum payable"] = NA /\ mMin # 0
            THEN [res EXCEPT !["Minimum payable"] = fmt_num(NumText(T[mMin + 1]))] ELSE res
      mTot == First({i \in 1..(Len(T) - 1) : T[i].k \in {"TD", "TDW"} /\ IsNum(T[i + 1])})
      r2 == IF r1["Total Dues"] = NA /\ mTot # 0
            THEN [r1 EXCEPT !["Total Dues"] = fmt_num(NumText(T[mTot + 1]))] ELSE r1
      m == MinPayDueBy(lines, T, L)
      r3 == IF m[1] # 0
            THEN [r2 EXCEPT !["Minimum payable"] = fmt_num(NumText(T[m[1] + 1])),
                            !["Payment due date"] = parse_date(DueByGroup(T, m[2]))]
            ELSE r2
  IN  IF r3["Statement date"] # NA
      THEN [r3 EXCEPT !["Statement date"] = parse_date(r3["Statement date"])]
      ELSE r3


----------------------------------------------------------------------------
(* Input documents *)

Amt160 == Num(16000, FALSE)
Amt175 == Num(17500, FALSE)
Amt3200 == Num(320000, FALSE)
Amt3200c == Num(320000, TRUE)
Amt42350c == Num(4235050, TRUE)
Amt50000c == Num(5000000, TRUE)

LinePool ==
  { <<Lbl("SD"), Date(1, 0)>>,
    <<Period(2, 1, 0)>>, <<Period(2, 4, 2)>>, <<Period(2, 1, 1)>>,
    <<Range(2, 2)>>, <<Range(2, 5)>>,
    <<Lbl("PDD"), Date(1, 0)>>,
    <<Lbl("DB"), Date(2, 1)>>, <<Lbl("DB"), Date(2, 3)>>,
    <<Lbl("MAD"), Amt3200c>>, <<Lbl("MAD"), Amt3200>>,
    <<Lbl("MP"), Amt160>>,
    <<Lbl("MPY"), Amt160>>,
    <<Lbl("TD"), Amt160>>, <<Lbl("TD"), Amt3200c>>,
    <<Lbl("TDW"), Amt3200>>,
    <<Lbl("EQ"), Amt3200c>>,
    <<Lbl("OB"), Amt160, Lbl("OP"), Amt160, Lbl("OP"), Amt3200c, Lbl("EQ"), Amt3200c, Amt160>>,
    <<Lbl("OB"), Lbl("W"), Amt160, Lbl("OP"), Amt160, Amt3200c, Lbl("EQ"), Amt3200c>>,
    <<Lbl("PDD"), Lbl("TD"), Lbl("MAD")>>,
    <<Date(1, 0), Amt3200c, Amt160>>,
    <<Date(1, 0), Amt160, Amt160>>,
    <<Amt160, Amt3200c, Amt160>>,
    <<Date(1, 0), Amt160, Amt3200c, Lbl("DR")>>,
    <<Amt3200c, Amt160, Lbl("DR")>>,
    <<Amt50000c, Amt42350c, Amt3200c, Amt160>>,
    <<Amt175, Amt160, Amt175, Amt160>>,
    <<Date(1, 0), Amt50000c, Amt42350c, Amt3200c, Amt160>>,
    <<Lbl("MP"), Amt3200c, Lbl("DB"), Date(2, 1)>>,
    <<Lbl("MP"), Amt160, Lbl("W"), Lbl("DB"), Date(2, 4)>>,
    <<Lbl("MP"), Amt160, Lbl("DB"), Amt3200>> }

(* first line of a document: the issuer names it shows *)
Letterheads ==
  { <<>>, <<Lbl("AMEX")>>, <<Lbl("HDFC")>>, <<Lbl("BOB")>>,
    <<Lbl("HDFC"), Lbl("BOB")>>, <<Date(2, 0), Lbl("HDFC")>>,
    <<Lbl("HDFC"), Lbl("BOB"), Lbl("PDD"), Lbl("TD"), Lbl("MAD")>> }

RECURSIVE SeqsUpTo(_, _)
SeqsUpTo(S, n) ==
  IF n = 0 THEN {<<>>}
  ELSE LET shorter == SeqsUpTo(S, n - 1)
       IN  shorter \cup {Append(q, x) : q \in {r \in shorter : Len(r) = n - 1}, x \in S}

(* one page: an optional letterhead line and up to MaxLines lines *)
OnePageDocs ==
  { << (IF h = <<>> THEN <<>> ELSE <<h>>) \o body >> :
      h \in Letterheads, body \in SeqsUpTo(LinePool, MaxLines) }

EmptyPage == <<>>

(* no page, a page with no text, and a summary line on the 1st, 5th or 6th page *)
PagedDocs ==
  { <<>>, <<EmptyPage>> } \cup
  { [i \in 1..n |-> IF i = n THEN <<ln>> ELSE EmptyPage] :
      n \in {PagesLimit, PagesLimit + 1},
      ln \in {<<Lbl("TD"), Amt160>>, <<Lbl("SD"), Date(1, 0)>>} }

Pdf(pages) == [ext |-> "pdf", readable |-> TRUE, pages |-> pages]
BadPdf == [ext |-> "pdf", readable |-> FALSE, pages |-> <<>>]
Csv == [ext |-> "csv", readable |-> TRUE, pages |-> <<>>]

DirectFiles == {Pdf(d) : d \in OnePageDocs \cup PagedDocs} \cup {BadPdf}

BatchFiles ==
  { BadPdf, Csv,
    Pdf(<< <<<<Lbl("TD"), Amt160>>, <<Date(1, 0), Amt3200c, Amt160>>>> >>),
    Pdf(<< <<<<Lbl("HDFC")>>, <<Lbl("PDD"), Lbl("TD"), Lbl("MAD")>>,
             <<Date(1, 0), Amt3200c, Amt160>>>> >>),
    Pdf(<< <<<<Date(1, 0), Amt50000c, Amt42350c, Amt3200c, Amt160>>>> >>) }

Batches == SeqsUpTo(BatchFiles, MaxFiles) \ {<<>>}

----------------------------------------------------------------------------------------------------------------------------------------
(* Vendor table, lines 15-20 and 572-577 *)

Merchants == {"Amazon", "amazon", "Uber"}
Categories == {"Food", "Shopping"}

(* merchant.lower() *)
Lower(m) == CASE m = "Amazon" -> "amazon" [] m = "Uber" -> "uber" [] OTHER -> m

DropDuplicatesKeepFirst(rows) ==
  LET keep == {i \in 1..Len(rows) :
                 \A j \in 1..(i - 1) : rows[j].merchant # rows[i].merchant}
  IN  [n \in 1..Cardinality(keep) |->
         rows[CHOOSE i \in keep : Cardinality({j \in keep : j <= i}) = n]]

(* drop_duplicates(subset=["merchant"], keep="last") *)
DropDuplicatesKeepLast(rows) ==
  LET keep == {i \in 1..Len(rows) :
                 \A j \in (i + 1)..Len(rows) : rows[j].merchant # rows[i].merchant}
      RECURSIVE Pick(_)
      Pick(i) == IF i > Len(rows) THEN <<>>
                 ELSE (IF i \in keep THEN <<rows[i]>> ELSE <<>>) \o Pick(i + 1)
  IN  Pick(1)

add_new_vendor(vm, merchant, category) ==
  DropDuplicatesKeepLast(Append(vm, [merchant |-> Lower(merchant), category |-> category]))

(* no add_new_vendor call has been made *)
Names == {Lower(m) : m \in Merchants}
NoCalls == [name \in Names |-> "-"]

----------------------------------------------------------------------------
(* The state machine *)

Init ==
  /\ \/ caller = "direct" /\ pc = "open" /\ files \in {<<f>> : f \in DirectFiles}
     \/ caller = "loop" /\ pc = "loop" /\ files \in Batches
  /\ fi = 1
  /\ result = DefaultResult
  /\ applied = {}
  /\ summaries = <<>>
  /\ errors = <<>>
  /\ all_data = <<>>
  /\ vendor_map = <<>>
  /\ calls = NoCalls
  /\ runs = 1
  /\ fn = "-" /\ arg = NA /\ ret = NA

CurLines == LinesOf(files[fi].pages)

(* lines 620-633: the loop takes the next uploaded file, a PDF *)
LoopPdf ==
  /\ pc = "loop" /\ fi <= Len(files) /\ files[fi].ext = "pdf"
  /\ pc' = "txn"
  /\ UNCHANGED <<caller, files, fi, result, applied, summaries, errors, all_data, vendor_map, calls, runs, fn, arg, ret>>

(* lines 638-646, 659: a CSV file gets its rows and the all-unknown summary *)
LoopCsv ==
  /\ pc = "loop" /\ fi <= Len(files) /\ files[fi].ext = "csv"
  /\ summaries' = Append(summaries, [file |-> fi, map |-> DefaultResult])
  /\ all_data' = Append(all_data, fi)
  /\ fi' = fi + 1
  /\ UNCHANGED <<caller, files, pc, result, applied, errors, vendor_map, calls, runs, fn, arg, ret>>

(* line 635: extract_transactions_from_pdf; pdfplumber.open (line 111) is  *)
(* outside any try, so its exception ends the script run                   *)
ExtractTransactions ==
  /\ pc = "txn"
  /\ pc' = IF files[fi].readable THEN "open" ELSE "crashed"
  /\ UNCHANGED <<caller, files, fi, result, applied, summaries, errors, all_data, vendor_map, calls, runs, fn, arg, ret>>

OpenOkKeepsResult ==
  /\ pc = "open" /\ files[fi].readable
  /\ applied' = {}
  /\ pc' = "generic"
  /\ UNCHANGED <<caller, files, fi, result, summaries, errors, all_data, vendor_map, calls, runs, fn, arg, ret>>

(* lines 229-247: result is created with every field unknown, the PDF is opened *)
OpenOk ==
  /\ pc = "open" /\ files[fi].readable
  /\ result' = DefaultResult
  /\ applied' = {}
  /\ pc' = "generic"
  /\ UNCHANGED <<caller, files, fi, summaries, errors, all_data, vendor_map, calls, runs, fn, arg, ret>>

(* what the caller does with the returned map: lines 636-637, 659 *)
Returned(map) ==
  /\ summaries' = Append(summaries, [file |-> fi, map |-> map])
  /\ all_data' = IF caller = "loop" THEN Append(all_data, fi) ELSE all_data
  /\ fi' = fi + 1
  /\ pc' = IF caller = "loop" THEN "loop" ELSE "done"

(* lines 501-508: the open raised; one st.error and the all-unknown map *)
OpenFails ==
  /\ pc = "open" /\ ~files[fi].readable
  /\ result' = DefaultResult
  /\ applied' = {}
  /\ errors' = Append(errors, fi)
  /\ Returned(DefaultResult)
  /\ UNCHANGED <<caller, files, vendor_map, calls, runs, fn, arg, ret>>

(* lines 266-313 *)
Generic ==
  /\ pc = "generic"
  /\ result' = GenericStep(result, CurLines)
  /\ pc' = "amex"
  /\ UNCHANGED <<caller, files, fi, summaries, errors, all_data, vendor_map, calls, runs, applied, fn, arg, ret>>

(* lines 317-347, entered when is_amex *)
Amex ==
  /\ pc = "amex"
  /\ result' = AmexStep(result, CurLines)
  /\ applied' = IF is_amex(FlatT(CurLines)) /\ result' # result
                 THEN applied \cup {"amex"} ELSE applied
  /\ pc' = "hdfc"
  /\ UNCHANGED <<caller, files, fi, summaries, errors, all_data, vendor_map, calls, runs, fn, arg, ret>>

(* lines 350-401, entered when is_hdfc *)
Hdfc ==
  /\ pc = "hdfc"
  /\ result' = HdfcStep(result, CurLines)
  /\ applied' = IF is_hdfc(FlatT(CurLines)) /\ result' # result
                 THEN applied \cup {"hdfc"} ELSE applied
  /\ pc' = "bob"
  /\ UNCHANGED <<caller, files, fi, summaries, errors, all_data, vendor_map, calls, runs, fn, arg, ret>>

(* lines 404-448, entered when is_bob *)
Bob ==
  /\ pc = "bob"
  /\ result' = BobStep(result, CurLines)
  /\ applied' = IF is_bob(FlatT(CurLines)) /\ result' # result
                 THEN applied \cup {"bob"} ELSE applied
  /\ pc' = "fallback"
  /\ UNCHANGED <<caller, files, fi, summaries, errors, all_data, vendor_map, calls, runs, fn, arg, ret>>

(* lines 451-470 *)
Fallback ==
  /\ pc = "fallback"
  /\ result' = FallbackStep(result, CurLines)
  /\ pc' = "final"
  /\ UNCHANGED <<caller, files, fi, summaries, errors, all_data, vendor_map, calls, runs, applied, fn, arg, ret>>

(* lines 473-491 *)
Final ==
  /\ pc = "final"
  /\ result' = FinalStep(result, CurLines)
  /\ pc' = "return"
  /\ UNCHANGED <<caller, files, fi, summaries, errors, all_data, vendor_map, calls, runs, applied, fn, arg, ret>>

(* lines 494-499 *)
ReturnedMap(res) ==
  [k \in Fields |-> IF k \in DOMAIN res THEN res[k] ELSE NA]

Return ==
  /\ pc = "return"
  /\ Returned(ReturnedMap(result))
  /\ UNCHANGED <<caller, files, result, applied, errors, vendor_map, calls, runs, fn, arg, ret>>

(* the for loop is exhausted *)
LoopEnd ==
  /\ pc = "loop" /\ fi > Len(files)
  /\ pc' = "done"
  /\ UNCHANGED <<caller, files, fi, result, applied, summaries, errors, all_data, vendor_map, calls, runs, fn, arg, ret>>

(* lines 661-680: a category is chosen for a merchant of the extracted rows *)
AddNewVendor ==
  /\ pc = "done" /\ caller = "loop" /\ all_data # <<>>
  /\ \E m \in Merchants, c \in Categories :
       /\ vendor_map' = add_new_vendor(vendor_map, m, c)
       /\ calls' = [calls EXCEPT ![Lower(m)] = c]
  /\ UNCHANGED <<caller, files, fi, pc, result, applied, summaries, errors, all_data, runs, fn, arg, ret>>

(* the script starts again on the same uploads (lines 15-20, 618-621): the *)
(* vendor table is read back from the file add_new_vendor wrote            *)
Rerun ==
  /\ pc \in {"done", "crashed"} /\ caller = "loop" /\ runs < MaxRuns
  /\ runs' = runs + 1
  /\ all_data' = <<>>
  /\ fi' = 1
  /\ pc' = "loop"
  /\ UNCHANGED <<caller, files, result, applied, summaries, errors, vendor_map, calls, fn, arg, ret>>

Next ==
  \/ LoopPdf \/ LoopCsv \/ ExtractTransactions \/ OpenOk \/ OpenFails
  \/ Generic \/ Amex \/ Hdfc \/ Bob \/ Fallback \/ Final \/ Return \/ LoopEnd
  \/ AddNewVendor \/ Rerun

Spec == Init /\ [][Next]_vars


----------------------------------------------------------------------------
(* extract_summary_from_pdf as a function of the pages, lines 216-515 *)

ExtractSummary(pages) ==
  LET lines == LinesOf(pages)
      r1 == GenericStep(DefaultResult, lines)
      r2 == AmexStep(r1, lines)
      r3 == HdfcStep(r2, lines)
      r4 == BobStep(r3, lines)
      r5 == FallbackStep(r4, lines)
  IN  ReturnedMap(FinalStep(r5, lines))

----------------------------------------------------------------------------
(* The helper functions called on their own: one call per behaviour, the   *)
(* function and its argument chosen at the start.                          *)

Text(f) == [t |-> "text", v |-> 0, f |-> f]
Obj(f) == [t |-> "obj", v |-> 0, f |-> f]
Inf == [t |-> "float", v |-> 0, f |-> "inf"]

(* arguments of parse_number: None, strings and other objects *)
NumberInputs ==
  { None, NA, Float(16000), Inf, DateStr(1, Canon),
    Text("inf"), Text("nan"), Text("word"), Text("empty"), Text("dots"),
    Obj("repr"), Obj("raises"), Obj("zero") } \cup
  { NumStr(v, f) : v \in {0, 16000, 320000}, f \in {"plain", "comma", "rupee", "padded"} }

(* A text line of a statement as extract_transactions_from_pdf reads it:   *)
(*   amex   the document is American Express (line 118)                    *)
(*   lead   how the line starts: "monthday" ("July 01 ..."), "date"        *)
(*          (dd/mm/YYYY), "inr" (a merchant, then INR or Rs before the     *)
(*          amount), "other"                                               *)
(*   amount the [\d,]+\.\d{2} amount that ends the line, in paise          *)
(*   mark   the CR / DR word after it ("" when none)                       *)
Marks == {"", "CR", "Cr", "cr", "DR", "Dr", "dr"}
TxnLines ==
  [amex : BOOLEAN, lead : {"monthday", "date", "inr", "other"},
   amount : {0, Amt160.a}, mark : Marks]

(* cr.lower().startswith("cr") *)
IsCr(mark) == mark \in {"CR", "Cr", "cr"}

Row(amount, type) == [Amount |-> amount, Type |-> type]

(* the rows one line adds to "transactions", lines 126-201 *)
TransactionRows(ln) ==
  LET signed == <<Row(IF IsCr(ln.mark) THEN -ln.amount ELSE ln.amount,
                      IF IsCr(ln.mark) THEN "CR" ELSE "DR")>>
  IN  IF ln.amex
      THEN (* 130-143: Month day, merchant, amount, optional CR; *)
           (* 144-160: any text, amount, optional CR or DR      *)
           signed
      ELSE IF ln.lead = "date" /\ ln.mark \in {"", "CR", "Cr", "DR", "Dr"}
      THEN (* 165-177 *) signed
      ELSE IF ln.lead = "inr"
      THEN (* 178-199 *) signed
      ELSE <<>>

(* A row of an uploaded table as normalize_dataframe sees it after the     *)
(* renaming of columns.  layout says which columns exist: Debit and        *)
(* Credit, Amount and Type, Amount only, or none of them.  A Debit or      *)
(* Credit cell is a number or NaN (an empty cell).                         *)
NaN == [nan |-> TRUE, v |-> 0]
Cell(v) == [nan |-> FALSE, v |-> v]
Cells == {NaN, Cell(0), Cell(10000), Cell(25000), Cell(-5000)}
SignedAmounts == {-50000, 0, Amt160.a}
TypeWords == {"CR", "DR", "cr", "Credit", "Debit"}

CsvRows ==
  {[layout |-> "debit_credit", debit |-> d, credit |-> c, amount |-> 0, type |-> ""] :
     d \in Cells, c \in Cells} \cup
  {[layout |-> "amount_type", debit |-> NaN, credit |-> NaN, amount |-> a, type |-> t] :
     a \in SignedAmounts, t \in TypeWords} \cup
  {[layout |-> l, debit |-> NaN, credit |-> NaN, amount |-> a, type |-> ""] :
     l \in {"amount", "none"}, a \in SignedAmounts}

fillna0(c) == IF c.nan THEN 0 ELSE c.v
Abs(x) == IF x < 0 THEN -x ELSE x
(* str(x["Type"]).upper().startswith("CR") *)
UpperStartsWithCR(t) == t \in {"CR", "cr", "Credit"}

(* lines 549-563 on one row *)
normalize_dataframe(row) ==
  CASE row.layout = "debit_credit" ->
         <<Row(fillna0(row.debit) - fillna0(row.credit),
               IF ~row.debit.nan /\ row.debit.v > 0 THEN "DR" ELSE "CR")>>
    [] row.layout = "amount_type" ->
         <<Row(IF UpperStartsWithCR(row.type) THEN -Abs(row.amount) ELSE Abs(row.amount),
               row.type)>>
    [] row.layout = "amount" -> <<Row(row.amount, "DR")>>
    [] OTHER -> <<>>

(* arguments of parse_date *)
DateInputs ==
  { None, NA, Float(0), Float(Amt160.a),
    Text("empty"), Text("word"), Obj("zero"), Obj("repr") } \cup
  { DateStr(v, f) : v \in {1, 2},
      f \in {Canon, "mdy", "dmy", "badmdy", "junk", "baddmy", "digits",
              "embedded", "dmy0", "d/m/y"} }

HelperInputs(f) ==
  CASE f = "parse_number" -> NumberInputs
    [] f = "parse_date" -> DateInputs
    [] f = "extract_transactions_from_pdf" -> TxnLines
    [] f = "normalize_dataframe" -> CsvRows

HelperFns ==
  {"parse_number", "parse_date", "extract_transactions_from_pdf", "normalize_dataframe"}

HelperInit ==
  /\ caller = "helper" /\ pc = "call"
  /\ files = <<>> /\ fi = 1
  /\ result = DefaultResult
  /\ applied = {}
  /\ summaries = <<>> /\ errors = <<>> /\ all_data = <<>>
  /\ vendor_map = <<>> /\ calls = NoCalls
  /\ runs = 1
  /\ fn \in HelperFns
  /\ arg \in HelperInputs(fn)
  /\ ret = NA

main == <<caller, files, fi, result, applied, summaries, errors, all_data, vendor_map, calls, runs>>

(* lines 34-39 *)
ParseNumber ==
  /\ pc = "call" /\ fn = "parse_number"
  /\ ret' = parse_number(arg)
  /\ pc' = "returned"
  /\ UNCHANGED <<main, fn, arg>>

(* lines 94-209, one line of text *)
ExtractTransactionRows ==
  /\ pc = "call" /\ fn = "extract_transactions_from_pdf"
  /\ ret' = TransactionRows(arg)
  /\ pc' = "returned"
  /\ UNCHANGED <<main, fn, arg>>

(* lines 528-563, one row of the table *)
NormalizeDataframe ==
  /\ pc = "call" /\ fn = "normalize_dataframe"
  /\ ret' = normalize_dataframe(arg)
  /\ pc' = "returned"
  /\ UNCHANGED <<main, fn, arg>>

(* lines 41-67; the results are kept in order *)
ParseDate ==
  /\ pc = "call" /\ fn = "parse_date"
  /\ ret' = <<parse_date(arg)>>
  /\ pc' = "returned"
  /\ UNCHANGED <<main, fn, arg>>

(* parse_date on its own result, as at line 491 *)
ParseDateAgain ==
  /\ pc = "returned" /\ fn = "parse_date"
  /\ ret' = Append(ret, parse_date(ret[1]))
  /\ pc' = "again"
  /\ UNCHANGED <<main, fn, arg>>

HelperNext ==
  \/ ParseNumber
  \/ ParseDate
  \/ ParseDateAgain
  \/ ExtractTransactionRows
  \/ NormalizeDataframe

Helpers == HelperInit /\ [][HelperNext]_vars

----------------------------------------------------------------------------
(* Properties *)

StagePcs == {"generic", "amex", "hdfc", "bob", "fallback", "final"}
DateFields == {"Statement date", "Payment due date"}
CurrencyFields == {"Minimum payable", "Total Dues"}

Returns == 1..Len(summaries)
FileOf(i) == files[summaries[i].file]
MapOf(i) == summaries[i].map
FromText(i) == FileOf(i).ext = "pdf" /\ FileOf(i).readable

(* C1: first writer wins.  Within one extraction, once a field holds a     *)
(* value other than "N/A", no later step changes the amount or the date it *)
(* holds.                                                                  *)
C1_FirstWriterWins ==
  [][\A k \in Fields :
       (pc \in StagePcs /\ result[k] # NA)
         => (result'[k].t = result[k].t /\ result'[k].v = result[k].v)]_vars

(* C2: in every returned map in which Minimum payable and Total Dues are   *)
(* both resolved, Minimum payable <= Total Dues.                           *)
C2_MinAtMostTotal ==
  \A i \in Returns :
    (MapOf(i)["Minimum payable"] # NA /\ MapOf(i)["Total Dues"] # NA)
      => MapOf(i)["Minimum payable"].v <= MapOf(i)["Total Dues"].v

(* C3: a PDF that cannot be opened does not stop the batch: the script     *)
(* does not end on it, and once the loop is past it the file has a         *)
(* reported error and the all-unknown summary.                             *)
C3_ReadFailureIsolated ==
  caller = "loop" =>
    /\ pc # "crashed"
    /\ \A i \in 1..(fi - 1) :
         ~files[i].readable =>
           /\ \E e \in 1..Len(errors) : errors[e] = i
           /\ \E s \in Returns : summaries[s].file = i /\ MapOf(s) = DefaultResult

(* tokens that read as a date or as an amount *)
DateLike(t) ==
  \/ t.k = "DATE" /\ t.b # 4
  \/ t.k = "RNG"
  \/ t.k = "SPF" /\ (t.c \in {0, 1} \/ t.b # 4)
NoDateNoAmount(pages) ==
  \A i \in 1..Len(FlatT(LinesOf(pages))) :
    LET t == FlatT(LinesOf(pages))[i] IN ~IsNum(t) /\ ~DateLike(t)

(* C4: unknown propagation.  When the scanned pages hold no date-like and  *)
(* no currency-like token, every field of the returned map is "N/A".       *)
C4_UnknownPropagation ==
  \A i \in Returns :
    (FromText(i) /\ NoDateNoAmount(FileOf(i).pages)) => MapOf(i) = DefaultResult

(* C5: every resolved currency field of a returned map is in the canonical *)
(* display form: the rupee symbol and a comma-grouped two-decimal number.  *)
C5_CanonicalCurrency ==
  \A i \in Returns : \A k \in CurrencyFields :
    MapOf(i)[k] # NA => (MapOf(i)[k].t = "num" /\ MapOf(i)[k].f = "rupee")

(* C6: every date field of a returned map is "N/A" or written dd/mm/YYYY.  *)
C6_CanonicalDates ==
  \A i \in Returns : \A k \in DateFields :
    MapOf(i)[k] # NA => (MapOf(i)[k].t = "date" /\ MapOf(i)[k].f = Canon)

(* C7: one issuer profile per document: the heuristics of at most one      *)
(* issuer (AMEX, HDFC, BOB) are applied to the field map by an extraction. *)
C7_SingleIssuer == Cardinality(applied) <= 1

(* a document whose only line is a date and four amounts L, A, T, M with   *)
(* L the largest, M <= T, M <= 0.2 * T and T <= 3 * L                      *)
IsCleanCluster(pages) ==
  LET lines == LinesOf(pages)
      ln == lines[1]
  IN  /\ Len(lines) = 1 /\ Len(ln) = 5 /\ IsDate0(ln[1])
      /\ \A j \in 2..5 : IsNum(ln[j])
      /\ \A j \in 2..5 : ln[2].a >= ln[j].a
      /\ ln[5].a <= ln[4].a /\ 5 * ln[5].a <= ln[4].a /\ ln[4].a <= 3 * ln[2].a

(* C8: graceful degradation.  For an unlabeled clean cluster the returned  *)
(* map has Total Dues = T and Minimum payable = M.                         *)
C8_CleanClusterRecovered ==
  \A i \in Returns :
    (FromText(i) /\ IsCleanCluster(FileOf(i).pages)) =>
      LET ln == LinesOf(FileOf(i).pages)[1]
      IN  /\ MapOf(i)["Total Dues"] = NumStr(ln[4].a, "rupee")
          /\ MapOf(i)["Minimum payable"] = NumStr(ln[5].a, "rupee")

(* C9: determinism.  Two extractions of the same pages return the same     *)
(* map, whatever was processed before them and whatever the vendor table   *)
(* holds: every returned map is the function of its pages alone.           *)
C9_Deterministic ==
  /\ \A i \in Returns : \A j \in Returns :
       FileOf(i) = FileOf(j) => MapOf(i) = MapOf(j)
  /\ \A i \in Returns : FromText(i) => MapOf(i) = ExtractSummary(FileOf(i).pages)

(* the same readable PDF summarised twice, after another document and with *)
(* a vendor table that has changed in between                              *)
C9_Witness ==
  /\ vendor_map # <<>>
  /\ \E i \in Returns : \E j \in Returns :
       /\ i < j /\ FileOf(i) = FileOf(j) /\ FromText(i)
       /\ MapOf(j) # DefaultResult
       /\ \E h \in Returns : h < j /\ FileOf(h) # FileOf(j) /\ MapOf(h) # DefaultResult

(* C10: every returned map has exactly the four keys, and every value is a *)
(* string: a value string or "N/A", never None and never a number.         *)
C10_OutputShape ==
  \A i \in Returns :
    /\ DOMAIN MapOf(i) = Fields
    /\ \A k \in Fields : MapOf(i)[k].t \in {"N/A", "num", "date"}

(* a map returned from the text of a PDF with all four fields resolved *)
C10_Witness ==
  \E i \in Returns : FromText(i) /\ \A k \in Fields : MapOf(i)[k] # NA

(* the text of s, without the symbol, the separators and the blanks around *)
(* it, is a decimal literal                                                *)
DecimalLiteral(s) ==
  s.t = "num" \/ (s.t = "float" /\ s.f = "-") \/ (s.t = "obj" /\ s.f = "zero")

(* C11: parse_number never raises and returns a number or None; it returns *)
(* the number when the stripped text of its argument is a decimal literal  *)
(* and None otherwise.                                                     *)
C11_ParseNumberTotal ==
  (fn = "parse_number" /\ pc = "returned") =>
    /\ ret.t \in {"float", "None"}
    /\ ret.t = "float" <=> DecimalLiteral(arg)

(* A numeric cluster: a line of four amounts, or a date and two amounts,   *)
(* with an optional leading date and an optional trailing DR.              *)
NumsOf(ln) == {j \in 1..Len(ln) : IsNum(ln[j])}
IsCluster(ln) ==
  /\ \A j \in 1..Len(ln) :
       \/ IsNum(ln[j])
       \/ j = 1 /\ IsDate0(ln[j])
       \/ j = Len(ln) /\ ln[j].k = "DR"
  /\ \/ Cardinality(NumsOf(ln)) = 4
     \/ Cardinality(NumsOf(ln)) = 2 /\ IsDate0(ln[1])
ClusterValues(ln) == {ln[j].a : j \in NumsOf(ln)}

(* how well a cluster satisfies the invariants: it has a minimum that is   *)
(* at most a fifth of a total (1) or it has not (0)                        *)
Score(ln) ==
  IF \E x \in ClusterValues(ln), y \in ClusterValues(ln) : 5 * x <= y THEN 1 ELSE 0

(* the text has nothing but clusters and issuer names *)
ClusterOnly(pages) ==
  /\ \A j \in 1..Len(FlatT(LinesOf(pages))) :
       FlatT(LinesOf(pages))[j].k \in {"NUM", "DATE", "DR", "AMEX", "HDFC", "BOB"}

(* C12: cluster selection is global.  When Total Dues and Minimum payable  *)
(* are taken from a numeric cluster of a text that holds only clusters,    *)
(* they are taken from a best-scoring cluster of the whole text: no other  *)
(* cluster, earlier or later, scores higher.                               *)
C12_GlobalClusterSelection ==
  \A i \in Returns :
    (FromText(i) /\ ClusterOnly(FileOf(i).pages)) =>
      LET lines == LinesOf(FileOf(i).pages)
          clusters == {j \in 1..Len(lines) : IsCluster(lines[j])}
          from == {j \in clusters :
                     /\ MapOf(i)["Total Dues"].t = "num"
                     /\ MapOf(i)["Minimum payable"].t = "num"
                     /\ MapOf(i)["Total Dues"].v \in ClusterValues(lines[j])
                     /\ MapOf(i)["Minimum payable"].v \in ClusterValues(lines[j])}
      IN  from # {} =>
            \E c \in from : \A d \in clusters : Score(lines[d]) <= Score(lines[c])

(* C13: date range anchoring.  After the generic label step, when the text *)
(* has a "statement date" label followed by a dd/mm/YYYY date, Statement   *)
(* date is that date; when it has none and has a range ("Statement Period  *)
(* From D1 to D2", or "D1 to D2"), Statement date is taken from the second *)
(* endpoint D2 and never from D1.                                          *)
C13_RangeAnchoring ==
  pc = "amex" =>
    LET T == FlatT(CurLines)
        m == LabelThen(T, "SD", "date0")
        p == First({i \in 1..Len(T) : T[i].k = "SPF"})
        r == IF p # 0 THEN p ELSE First({i \in 1..Len(T) : T[i].k = "RNG"})
    IN  /\ m # 0 => result["Statement date"] = parse_date(DateText(T[m + 1]))
        /\ (m = 0 /\ r # 0) => result["Statement date"] = parse_date(DateText(T[r]))

Ordered(res) ==
  /\ res["Minimum payable"].t = "num" /\ res["Total Dues"].t = "num"
  /\ res["Minimum payable"].v <= res["Total Dues"].v

PairChanged ==
  \/ result'["Minimum payable"] # result["Minimum payable"]
  \/ result'["Total Dues"] # result["Total Dues"]

(* C14: a step that assigns Minimum payable and Total Dues together by     *)
(* magnitude writes a minimum that is <= the total.  Every write to the    *)
(* pair in the BOB block and in the generic fallback is such a step; in    *)
(* the HDFC block it is the row led by a date, under a header line.        *)
C14_MagnitudeOrder ==
  [][/\ (pc \in {"bob", "fallback"} /\ PairChanged) => Ordered(result')
     /\ pc = "hdfc" =>
          \A idx \in 1..Len(CurLines) :
            \A j \in idx..MinOf(idx + HdfcLookahead - 1, Len(CurLines)) :
              LET flat == FlatOf(CurLines[j])
                  vals == <<parse_number(TokText(flat[2])), parse_number(TokText(flat[3]))>>
              IN  (IsHdfcHeader(CurLines[idx]) /\ Len(flat) >= 3 /\ IsDate0(flat[1]))
                    => Ordered(HdfcDateRow(result, flat, vals))]_vars

(* the HDFC row led by a date has assigned two equal amounts *)
C14_Witness ==
  /\ pc = "bob" /\ applied = {"hdfc"}
  /\ result["Minimum payable"] = NumStr(Amt160.a, "rupee")
  /\ result["Total Dues"] = NumStr(Amt160.a, "rupee")
  /\ \E j \in 1..Len(CurLines) : CurLines[j] = <<Date(1, 0), Amt160, Amt160>>

(* C15: sign/type agreement.  In every row returned by                     *)
(* extract_transactions_from_pdf and by normalize_dataframe, a row of Type *)
(* CR has Amount <= 0 and a row of Type DR has Amount >= 0.                *)
C15_SignTypeAgreement ==
  (pc = "returned" /\ fn \in {"extract_transactions_from_pdf", "normalize_dataframe"}) =>
    \A i \in 1..Len(ret) :
      /\ ret[i].Type = "CR" => ret[i].Amount <= 0
      /\ ret[i].Type = "DR" => ret[i].Amount >= 0

(* C16: Statement date is written at most once.  The AMEX, HDFC and BOB    *)
(* blocks and the final passes, re-normalization through parse_date        *)
(* included, leave Statement date as it is; the generic fallback writes it *)
(* only when it is "N/A".                                                  *)
C16_StatementDateOnce ==
  [][/\ pc \in {"amex", "hdfc", "bob", "final"}
          => result'["Statement date"] = result["Statement date"]
     /\ (pc = "fallback" /\ result["Statement date"] # NA)
          => result'["Statement date"] = result["Statement date"]]_vars

(* the extraction is over, Statement date holds the unparsed text that the *)
(* generic step stored, and the text has a line the fallback matches       *)
C16_Witness ==
  /\ pc = "return"
  /\ result["Statement date"].t = "date" /\ result["Statement date"].f # Canon
  /\ \E j \in 1..Len(CurLines) : FallbackDate(CurLines[j]) # 0

(* C17: vendor map uniqueness with last-writer-wins.  After any sequence   *)
(* of add_new_vendor calls, vendor_map has exactly one row for each        *)
(* lower-cased merchant name that was added, with the category of the most *)
(* recent add for that name, and no row for any other name.                *)
C17_VendorMapLastWins ==
  /\ \A j \in 1..Len(vendor_map) : vendor_map[j].merchant \in Names
  /\ \A name \in Names :
       LET rows == {j \in 1..Len(vendor_map) : vendor_map[j].merchant = name}
       IN  /\ Cardinality(rows) = IF calls[name] = "-" THEN 0 ELSE 1
           /\ \A j \in rows : vendor_map[j].category = calls[name]

(* both merchants were added, in different categories, and the script has  *)
(* started again on the table the calls wrote                              *)
C17_Witness ==
  /\ calls["amazon"] # "-" /\ calls["uber"] # "-" /\ calls["amazon"] # calls["uber"]
  /\ Len(vendor_map) = 2
  /\ runs > 1

(* C18: parse_date is idempotent: applied to its own result it returns     *)
(* that result.                                                            *)
C18_ParseDateIdempotent ==
  (fn = "parse_date" /\ pc = "again") => ret[2] = ret[1]

(* a text date was converted to dd/mm/YYYY and the result parsed again *)
C18_Witness ==
  /\ fn = "parse_date" /\ pc = "again"
  /\ arg.t = "date" /\ arg.f = "mdy"
  /\ ret[1] = DateStr(arg.v, Canon)

====
